---- MODULE Spec2Model ----
(***************************************************************************)
(* Transfer orchestration of dvc/fs/base.py (BaseFileSystem): the atomic   *)
(* single-file materializer (_download_file), the directory scheduler      *)
(* (_download_dir, on a ThreadPoolExecutor) and the scheme dispatch of     *)
(* download and upload.                                                    *)
(***************************************************************************)
EXTENDS Naturals, Sequences, FiniteSets, TLC

\* ---------------------------------------------------------------- bounds
\* concurrent callers of _download_file (SpecFile)
MaxCalls == 2
\* files a directory listing (walk_files) may hold
MaxFiles == 2
\* largest worker bound (jobs) of a directory download
MaxJobs == 2
\* chunks get_file writes for one file
NumChunks == 2
\* bytes an uploaded stream may hold
MaxBytes == 3
\* bytes one read of the stream may return
MaxRead == 2

Max(a, b) == IF a >= b THEN a ELSE b
Min(a, b) == IF a <= b THEN a ELSE b

Tasks == 1..Max(MaxCalls, MaxFiles)

\* ---------------------------------------------------------------- paths
\* A path is the sequence of its components.
from_root == <<"a">>
to_root == <<"b">>

\* the i-th file walk_files yields, relative to the source directory
FileRel(i) == IF i % 2 = 1 THEN <<"f" \o ToString(i)>>
                           ELSE <<"d" \o ToString(i), "f">>

\* info.relative_to(from_info)
relative_to(info, base) == SubSeq(info, Len(base) + 1, Len(info))

\* to_info / rel
joinpath(base, rel) == base \o rel

\* to_info.parent
parent(p) == SubSeq(p, 1, Len(p) - 1)

\* the source files of the remote directory and where each one lands
FromInfo(i) == joinpath(from_root, FileRel(i))
ToInfo(i) == joinpath(to_root, relative_to(FromInfo(i), from_root))

\* uuid(): one fresh identifier per call
uuid(t) == ToString(t)

\* tmp_fname(to_info) == fspath(to_info) + "." + uuid() + ".tmp"
tmp_fname(fname, u) ==
    [fname EXCEPT ![Len(fname)] = @ \o "." \o u \o ".tmp"]

\* makedirs(path, exist_ok=True): the directory and all its ancestors exist
makedirs(ds, path) == ds \cup {SubSeq(path, 1, k) : k \in 1..Len(path)}

\* ---------------------------------------------------------------- content
\* the bytes of remote file i, in the chunks get_file writes
RemoteContent(i) == [k \in 1..NumChunks |-> <<i, k>>]
\* what a destination holds before any download
OldContent == <<<<0, 1>>>>

\* ---------------------------------------------------------------- errors
Exc(type, arg) == [type |-> type, arg |-> arg]
None == Exc("None", "")
TransferError(t) == Exc("TransferError", ToString(t))
FileNotFoundError(path) == Exc("FileNotFoundError", path[Len(path)])
NotImplementedError == Exc("NotImplementedError", "")
\* what pbar.as_callback or callback.set_size raises when it fails, in call t
CallbackError(method, t) == Exc("CallbackError", method \o " " \o ToString(t))
RemoteActionNotImplemented(action, scheme) ==
    Exc("RemoteActionNotImplemented", action \o " is not supported for " \o scheme \o " remotes")

VARIABLES
    fs,      \* local files: path -> content (sequence of chunks)
    dirs,    \* local directories that exist
    before,  \* the local files and directories before any call
    task,    \* one record per _download_file call
    prim,    \* how often each backend primitive was invoked
    call,    \* the download call: its arguments, its position, its outcome
    fut,     \* the futures of the executor: state and exception
    queue,   \* the executor's work queue (submission order)
    done,    \* the futures in the order they finished
    snap,    \* the futures already finished when as_completed started
    seen,    \* the futures as_completed has yielded
    ci,      \* the next entry of the cancel loop
    late,    \* the futures a worker started after the loop had seen a failure
    self,    \* the attributes of the backend instance (set by __init__)
    ctor,    \* the construction of the instance: its position, its outcome
    remote   \* the objects of the remote store

\* what no step of a transfer changes: the prior local state, the instance
\* and the remote store
envvars == <<before, self, ctor, remote>>
taskvars == <<fs, dirs, envvars, task, prim>>
execvars == <<fut, queue, done, snap, seen, ci, late>>
vars == <<fs, dirs, before, task, prim, call, fut, queue, done, snap, seen, ci, late, self, ctor, remote>>

\* opened and wr are get_file's own progress: whether it has opened its
\* target and how many chunks it has written
\* get_file_calls counts the invocations of get_file by the call
IdleTask == [pc |-> "idle", src |-> 0, to_info |-> <<>>, tmp_file |-> <<>>,
             opened |-> FALSE, wr |-> 0, exc |-> None, pbar |-> "none",
             get_file_calls |-> 0]

IdleCall == [pc |-> "idle", op |-> "", caps |-> {}, scheme |-> "",
             from_info |-> [scheme |-> ""], to_info |-> [scheme |-> ""],
             only_file |-> FALSE, route |-> "", jobs |-> 0, max_workers |-> 0, n |-> 0,
             exc |-> None, result |-> "", isdir |-> "", pbar |-> "none",
             left |-> 0, nread |-> 0, reported |-> 0]

NoFuture == [state |-> "NONE", exc |-> None]

Primitives == {"get_file", "copy", "remove", "isdir", "walk_files", "put_file", "upload_fobj"}

DestFiles == {ToInfo(i) : i \in 1..MaxFiles}
\* the destinations the concurrent callers of SpecFile choose from
CallDests == {ToInfo(1), ToInfo(2)}

\* --------------------------------------------------------- construction
\* multiprocessing.cpu_count() on the machine
cpu_count == 1
\* line 45: _JOBS = 4 * cpu_count()
_JOBS == 4 * cpu_count
\* line 48: HASH_JOBS = max(1, min(4, cpu_count() // 2))
HASH_JOBS == Max(1, Min(4, cpu_count \div 2))

\* kwargs.get(key); 0 stands for None
get(kwargs, key) == IF key \in DOMAIN kwargs THEN kwargs[key] ELSE 0
\* a or b, for numbers
or(a, b) == IF a # 0 THEN a ELSE b

\* the keyword arguments an instance is constructed with
NoKwargs == [k \in {} |-> 0]
Kwargs == {NoKwargs, [jobs |-> 1, checksum_jobs |-> 2, url |-> "s3://bucket/data"]}

\* REQUIRES of a backend type: (package, module) in the order of the dict
Requirements ==
    {<<>>, <<<<"adlfs", "adlfs">>>>,
     <<<<"adlfs", "adlfs">>, <<"azure-identity", "azure.identity">>>>}
\* the modules importlib.import_module may find
Modules == {"adlfs", "azure.identity"}
\* the packaging channel (dvc.utils.pkg.PKG), "" when there is none
PKGs == {"pip", "conda", ""}
\* the schemes of the backend types that are constructed
CtorSchemes == {"s3", "webdavs"}

RemoteMissingDepsError(m) == Exc("RemoteMissingDepsError", m)

\* (mutant) the loop stops at the first package that does not import
RECURSIVE get_missing_deps_first(_, _)
get_missing_deps_first(requires, importable) ==
    IF requires = <<>> THEN <<>>
    ELSE IF Head(requires)[2] \in importable
         THEN get_missing_deps_first(Tail(requires), importable)
         ELSE <<Head(requires)[1]>>

\* lines 80-91: the packages of REQUIRES whose module does not import
RECURSIVE get_missing_deps(_, _)
get_missing_deps(requires, importable) ==
    IF requires = <<>> THEN <<>>
    ELSE LET package == Head(requires)[1]
             module == Head(requires)[2]
             missing == get_missing_deps(Tail(requires), importable)
         IN IF module \in importable THEN missing ELSE <<package>> \o missing

\* str(missing), a list of names
RECURSIVE join(_)
join(names) ==
    IF names = <<>> THEN ""
    ELSE "'" \o Head(names) \o "'" \o (IF Tail(names) = <<>> THEN "" ELSE ", " \o join(Tail(names)))

\* lines 104-125: the installation hint of the packaging channel
hint(scheme, pkg) ==
    LET s == IF scheme = "webdavs" THEN "webdav" ELSE scheme
    IN IF pkg = "pip" THEN "To install dvc with those dependencies, run: pip install 'dvc[" \o s \o "]'"
       ELSE IF pkg = "conda"
       THEN "To install dvc with those dependencies, run: conda install -c conda-forge dvc-" \o s
       ELSE "Please report this bug."

\* lines 93-130: _check_requires(**kwargs): what it raises, None if nothing
_check_requires(scheme, kwargs, requires, importable, pkg) ==
    LET missing == get_missing_deps(requires, importable)
        url == IF "url" \in DOMAIN kwargs THEN kwargs.url ELSE scheme \o "://"
    IN IF missing = <<>> THEN None
       ELSE RemoteMissingDepsError(
                "URL '" \o url \o "' is supported but requires these missing dependencies: ["
                \o join(missing) \o "]. " \o hint(scheme, pkg))

\* no instance yet, and no attribute
NoInstance == [k \in {} |-> 0]
NotConstructed == [pc |-> "none", exc |-> None, checks |-> 0, missing |-> <<>>, unresolved |-> {}]

\* lines 64-66: the attributes __init__ sets
attributes(kwargs) ==
    [jobs |-> or(get(kwargs, "jobs"), _JOBS),
     hash_jobs |-> or(get(kwargs, "checksum_jobs"), HASH_JOBS),
     _config |-> kwargs]

\* lines 61-66: __init__(**kwargs) of a backend type with these REQUIRES, in
\* an environment where these modules import.  ctor.unresolved notes the
\* declared packages whose module is not there.
Construct(scheme, kwargs, requires, importable, pkg) ==
    LET exc == _check_requires(scheme, kwargs, requires, importable, pkg)
        declared == {requires[k] : k \in 1..Len(requires)}
    IN
    /\ ctor' = [pc |-> IF exc = None THEN "constructed" ELSE "raised",
                exc |-> exc,
                checks |-> ctor.checks + 1,
                missing |-> get_missing_deps(requires, importable),
                unresolved |-> {d[1] : d \in {e \in declared : e[2] \notin importable}}]
    /\ self' = IF exc = None THEN attributes(kwargs) ELSE self
    /\ UNCHANGED <<fs, dirs, before, task, prim, call, execvars, remote>>

__init__ ==
    /\ ctor.pc = "none"
    /\ \E scheme \in CtorSchemes, kwargs \in Kwargs, requires \in Requirements,
          importable \in SUBSET Modules, pkg \in PKGs :
            Construct(scheme, kwargs, requires, importable, pkg)

\* ------------------------------------------------- local file operations
\* os.unlink(path): removes the file, FileNotFoundError if there is none
unlink(files, path) ==
    IF path \in DOMAIN files
    THEN [exc |-> None, fs |-> [p \in DOMAIN files \ {path} |-> files[p]]]
    ELSE [exc |-> FileNotFoundError(path), fs |-> files]

\* move(tmp_file, to_info): one atomic rename onto the destination
move(files, src, dst) ==
    [p \in (DOMAIN files \ {src}) \cup {dst} |-> IF p = dst THEN files[src] ELSE files[p]]

\* open(path, "wb"): creates or truncates
truncate(files, path) ==
    [p \in DOMAIN files \cup {path} |-> IF p = path THEN <<>> ELSE files[p]]

append(files, path, chunk) ==
    [files EXCEPT ![path] = Append(@, chunk)]

\* ------------------------------------------------------- _download_file
\* lines 388-396: without a callback, a progress bar is created and entered
\* into the stack (it is open) and the callback is derived from it
default_pbar(callback) == IF callback THEN "none" ELSE "open"

\* lines 384-402: tmp_fname, the default progress bar when no callback is
\* given, and get_file is called; as_callback_ok is whether pbar.as_callback
\* (line 396) returns.  If it raises, the call raises before the with block
\* of line 400 and the try of line 399 are entered.
entered(t, src, to_info, callback, as_callback_ok) ==
    IF callback \/ as_callback_ok
    THEN [IdleTask EXCEPT !.pc = "get_file", !.src = src, !.to_info = to_info,
                          !.tmp_file = tmp_fname(to_info, uuid(t)),
                          !.pbar = default_pbar(callback),
                          !.get_file_calls = 1]
    ELSE [IdleTask EXCEPT !.pc = "raised", !.src = src, !.to_info = to_info,
                          !.tmp_file = tmp_fname(to_info, uuid(t)),
                          !.pbar = default_pbar(callback),
                          !.exc = CallbackError("as_callback", t)]

\* (mutant) get_file is handed the destination itself
get_file_target_to_info(t) == task[t].to_info

\* the path _download_file hands to get_file (line 402)
get_file_target(t) == task[t].tmp_file

\* the with block of line 400 is left: the default progress bar is closed
exit_stack(pbar) == IF pbar = "open" THEN "closed" ELSE pbar

\* get_file opens its local target for writing
get_file_open(t) ==
    /\ task[t].pc = "get_file"
    /\ ~task[t].opened
    /\ fs' = truncate(fs, get_file_target(t))
    /\ task' = [task EXCEPT ![t].opened = TRUE]
    /\ UNCHANGED <<dirs, envvars, prim, call, execvars>>

\* get_file writes the next chunk of the remote file
get_file_write(t) ==
    /\ task[t].pc = "get_file"
    /\ task[t].opened
    /\ task[t].wr < NumChunks
    /\ fs' = append(fs, get_file_target(t), RemoteContent(task[t].src)[task[t].wr + 1])
    /\ task' = [task EXCEPT ![t].wr = @ + 1]
    /\ UNCHANGED <<dirs, envvars, prim, call, execvars>>

\* get_file returns: everything is written
get_file_return(t) ==
    /\ task[t].pc = "get_file"
    /\ task[t].opened
    /\ task[t].wr = NumChunks
    /\ task' = [task EXCEPT ![t].pc = "move", ![t].pbar = exit_stack(@),
                            ![t].opened = FALSE, ![t].wr = 0]
    /\ UNCHANGED <<fs, dirs, envvars, prim, call, execvars>>

\* (mutant) the handler re-raises without removing the temporary file
except_handler_keeps(files, tmp_file, handled) == [fs |-> files, exc |-> handled]

\* the handler of lines 403-407: os.unlink(tmp_file), then raise.  What
\* leaves it is what os.unlink raises if it raises, else the error handled.
except_handler(files, tmp_file, handled) ==
    LET r == unlink(files, tmp_file)
    IN [fs |-> r.fs, exc |-> IF r.exc # None THEN r.exc ELSE handled]

\* get_file raises, at any point of the transfer (before its target exists
\* too): lines 403-407 run and _download_file raises
get_file_raise(t) ==
    /\ task[t].pc = "get_file"
    /\ LET h == except_handler(fs, task[t].tmp_file, TransferError(t)) IN
        /\ fs' = h.fs
        /\ task' = [task EXCEPT ![t].pc = "raised", ![t].exc = h.exc,
                                ![t].pbar = exit_stack(@),
                                ![t].opened = FALSE, ![t].wr = 0]
    /\ UNCHANGED <<dirs, envvars, prim, call, execvars>>

\* line 409: move(tmp_file, to_info)
_download_file_move(t) ==
    /\ task[t].pc = "move"
    /\ fs' = move(fs, task[t].tmp_file, task[t].to_info)
    /\ task' = [task EXCEPT ![t].pc = "returned"]
    /\ UNCHANGED <<dirs, envvars, prim, call, execvars>>

\* ------------------------------------------- concurrent single-file calls
\* a caller invokes _download_file(from_info, to_info) for remote file s
_download_file(t, s, d) ==
    /\ task[t].pc = "idle"
    /\ dirs' = makedirs(dirs, parent(d))
    /\ \E as_callback_ok \in BOOLEAN :
        task' = [task EXCEPT ![t] = entered(t, s, d, FALSE, as_callback_ok)]
    /\ prim' = [prim EXCEPT !["get_file"] = @ + task'[t].get_file_calls]
    /\ UNCHANGED <<fs, envvars, call, execvars>>

InitIdle ==
    /\ before = [fs |-> fs, dirs |-> dirs]
    /\ task = [t \in Tasks |-> IdleTask]
    /\ prim = [p \in Primitives |-> 0]
    /\ call = IdleCall
    /\ fut = [i \in Tasks |-> NoFuture]
    /\ queue = <<>>
    /\ done = <<>>
    /\ snap = {}
    /\ seen = {}
    /\ ci = 0
    /\ late = {}
    /\ remote = {from_root}

InitFile ==
    /\ \E pre \in SUBSET CallDests : fs = [p \in pre |-> OldContent]
    /\ dirs = {parent(p) : p \in DOMAIN fs}
    /\ self = attributes(NoKwargs)
    /\ ctor = [NotConstructed EXCEPT !.pc = "constructed", !.checks = 1]
    /\ InitIdle

NextFile ==
    \/ \E t \in 1..MaxCalls, d \in CallDests : _download_file(t, t, d)
    \/ \E t \in 1..MaxCalls : get_file_open(t)
    \/ \E t \in 1..MaxCalls : get_file_write(t)
    \/ \E t \in 1..MaxCalls : get_file_return(t)
    \/ \E t \in 1..MaxCalls : get_file_raise(t)
    \/ \E t \in 1..MaxCalls : _download_file_move(t)

SpecFile == InitFile /\ [][NextFile]_vars

\* ------------------------------------------------------------- download
Schemes == {"local", "s3", "gs"}
\* the schemes of the backends download and upload are called on
BackendSchemes == {"local", "s3"}
\* the optional primitives a backend may have (hasattr)
Capabilities == {"get_file", "put_file", "upload_fobj"}

\* a located resource of a scheme, and an in-memory stream
Located(scheme) == [scheme |-> scheme]
Stream == [read |-> TRUE]

CopyError == Exc("CopyError", "")
UploadError == Exc("UploadError", "")

Route(kind, exc) == [kind |-> kind, exc |-> exc]

\* (mutant) download without the server-side copy of lines 302-304
DownloadRoute_no_copy(caps, scheme, from_info, to_info) ==
    IF "get_file" \notin caps
    THEN Route("raise", RemoteActionNotImplemented("get_file", scheme))
    ELSE IF from_info.scheme # scheme
    THEN Route("raise", NotImplementedError)
    ELSE IF to_info.scheme # "local"
    THEN Route("raise", NotImplementedError)
    ELSE Route("local", None)

\* (mutant) download without the source check of lines 299-300
DownloadRoute_no_from_check(caps, scheme, from_info, to_info) ==
    IF "get_file" \notin caps
    THEN Route("raise", RemoteActionNotImplemented("get_file", scheme))
    ELSE IF to_info.scheme = scheme /\ scheme # "local"
    THEN Route("copy", None)
    ELSE IF to_info.scheme # "local"
    THEN Route("raise", NotImplementedError)
    ELSE Route("local", None)

\* lines 296-307 of download: the capability and scheme checks, in order
DownloadRoute(caps, scheme, from_info, to_info) ==
    IF "get_file" \notin caps
    THEN Route("raise", RemoteActionNotImplemented("get_file", scheme))
    ELSE IF from_info.scheme # scheme
    THEN Route("raise", NotImplementedError)
    ELSE IF to_info.scheme = scheme /\ scheme # "local"
    THEN Route("copy", None)
    ELSE IF to_info.scheme # "local"
    THEN Route("raise", NotImplementedError)
    ELSE Route("local", None)

\* (mutant) isdir is probed whatever _only_file is
ProbesIsdir_always(only_file) == TRUE

\* line 309: isdir is probed unless _only_file is set
ProbesIsdir(only_file) == ~only_file

\* (mutant) the pool gets no worker thread
max_workers_none(jobs, self_jobs) == 0

\* (mutant) the jobs argument of the call is ignored
max_workers_self(jobs, self_jobs) == self_jobs

\* line 354: max_workers = jobs or self.jobs (0 stands for None)
max_workers(jobs, self_jobs) == IF jobs # 0 THEN jobs ELSE self_jobs

\* (mutant) an empty listing returns without creating the directory
empty_listing_noop(ds, to_info) == ds

\* lines 338-340: an empty listing: makedirs(to_info, exist_ok=True)
empty_listing(ds, to_info) == makedirs(ds, to_info)

\* lines 341-359: the destination of each file of the listing, and one
\* future per file, submitted in the order of the listing
submitted(n) ==
    [i \in Tasks |->
        IF i <= n
        THEN [IdleTask EXCEPT !.src = i,
                              !.to_info = joinpath(to_root, relative_to(FromInfo(i), from_root))]
        ELSE IdleTask]

\* download(from_info, to_info, ...) up to the point where it returns, raises
\* or hands over to the workers of _download_dir or to _download_file.
\* copy_ok, isdir and n are what the backend's copy, isdir and walk_files answer.
Download(caps, scheme, from_info, to_info, only_file, callback, as_callback_ok, jobs, self_jobs, copy_ok, isdir, n) ==
    LET r == DownloadRoute(caps, scheme, from_info, to_info)
        probe == r.kind = "local" /\ ProbesIsdir(only_file)
        dir == probe /\ isdir
        args == [call EXCEPT !.op = "download", !.caps = caps, !.scheme = scheme,
                             !.from_info = from_info, !.to_info = to_info,
                             !.only_file = only_file,
                             !.isdir = IF ~probe THEN "" ELSE IF isdir THEN "True" ELSE "False",
                             !.route = IF r.kind # "local" THEN r.kind
                                       ELSE IF dir THEN "dir" ELSE "file"]
    IN
    /\ CASE r.kind = "raise" ->
            /\ call' = [args EXCEPT !.pc = "raised", !.exc = r.exc]
            /\ UNCHANGED <<dirs, task, prim, fut, queue>>
         [] r.kind = "copy" ->
            \* lines 303-304: self.copy(from_info, to_info); return 0
            /\ call' = IF copy_ok THEN [args EXCEPT !.pc = "returned"]
                                  ELSE [args EXCEPT !.pc = "raised", !.exc = CopyError]
            /\ prim' = [prim EXCEPT !["copy"] = @ + 1]
            /\ UNCHANGED <<dirs, task, fut, queue>>
         [] dir /\ n = 0 ->
            \* lines 337-340: an empty listing
            /\ call' = [args EXCEPT !.pc = "returned"]
            /\ dirs' = empty_listing(dirs, to_root)
            /\ prim' = [prim EXCEPT !["isdir"] = @ + 1, !["walk_files"] = @ + 1]
            /\ UNCHANGED <<task, fut, queue>>
         [] dir /\ n > 0 ->
            \* lines 341-359: the listing, the executor, the futures
            /\ call' = [args EXCEPT !.pc = "as_completed", !.n = n, !.jobs = jobs,
                                    !.max_workers = max_workers(jobs, self_jobs)]
            /\ prim' = [prim EXCEPT !["isdir"] = @ + 1, !["walk_files"] = @ + 1]
            /\ task' = submitted(n)
            /\ fut' = [i \in Tasks |-> IF i <= n THEN [NoFuture EXCEPT !.state = "PENDING"]
                                                 ELSE NoFuture]
            /\ queue' = [i \in 1..n |-> i]
            /\ UNCHANGED dirs
         [] OTHER ->
            \* lines 318-324: _download_file, in the caller's thread
            /\ call' = [args EXCEPT !.pc = "file"]
            /\ dirs' = makedirs(dirs, parent(ToInfo(1)))
            /\ task' = [task EXCEPT ![1] = entered(1, 1, ToInfo(1), callback, as_callback_ok)]
            /\ prim' = [prim EXCEPT !["isdir"] = @ + (IF probe THEN 1 ELSE 0),
                                    !["get_file"] = @ + task'[1].get_file_calls]
            /\ UNCHANGED <<fut, queue>>
    /\ UNCHANGED <<fs, envvars, done, snap, seen, ci, late>>

\* a caller invokes download on some backend (only get_file, among its
\* capabilities, is looked at), with some arguments
download ==
    /\ call.pc = "idle"
    /\ ctor.pc = "constructed"
    /\ \E caps \in {Capabilities, Capabilities \ {"get_file"}},
          scheme \in BackendSchemes,
          from_scheme \in Schemes, to_scheme \in Schemes,
          only_file \in BOOLEAN, callback \in BOOLEAN, as_callback_ok \in BOOLEAN,
          jobs \in 0..MaxJobs,
          copy_ok \in BOOLEAN, isdir \in BOOLEAN, n \in 0..MaxFiles :
            Download(caps, scheme, Located(from_scheme), Located(to_scheme), only_file,
                     callback, as_callback_ok, jobs, self.jobs, copy_ok, isdir, n)

\* (mutant) download returns whatever _download_file did
file_result_swallowed(t) == [pc |-> "returned", exc |-> None]

\* lines 318-324: return self._download_file(...): its return or its error
file_result(t) == [pc |-> task[t].pc, exc |-> task[t].exc]

\* _download_file has returned or raised: so does download
download_file_done ==
    /\ call.pc = "file"
    /\ task[1].pc \in {"returned", "raised"}
    /\ call' = [call EXCEPT !.pc = file_result(1).pc, !.exc = file_result(1).exc]
    /\ UNCHANGED <<taskvars, execvars>>

\* --------------------------------------------------------------- upload
\* line 241: hasattr(from_info, "read")
is_file_obj(from_info) == "read" \in DOMAIN from_info

\* line 242
upload_method(from_info) == IF is_file_obj(from_info) THEN "upload_fobj" ELSE "put_file"

\* (mutant) upload without the source check of lines 276-277
UploadRoute_no_local_check(caps, scheme, from_info, to_info) ==
    IF upload_method(from_info) \notin caps
    THEN Route("raise", RemoteActionNotImplemented(upload_method(from_info), scheme))
    ELSE IF to_info.scheme # scheme
    THEN Route("raise", NotImplementedError)
    ELSE Route(upload_method(from_info), None)

\* lines 241-283 of upload: the checks, in order, and the primitive reached
UploadRoute(caps, scheme, from_info, to_info) ==
    IF upload_method(from_info) \notin caps
    THEN Route("raise", RemoteActionNotImplemented(upload_method(from_info), scheme))
    ELSE IF to_info.scheme # scheme
    THEN Route("raise", NotImplementedError)
    ELSE IF is_file_obj(from_info)
    THEN Route("upload_fobj", None)
    ELSE IF from_info.scheme # "local"
    THEN Route("raise", NotImplementedError)
    ELSE Route("put_file", None)

\* lines 241-247: the checks made before the progress bar is created
UploadRejectedEarly(caps, scheme, from_info, to_info) ==
    upload_method(from_info) \notin caps \/ to_info.scheme # scheme

\* lines 253-264: the callback is the caller's, or it is derived from the
\* default progress bar (as_callback) and told the total when one is given
\* (set_size); what this raises, None if nothing
callback_acquired(callback, total, as_callback_ok, set_size_ok) ==
    IF callback THEN None
    ELSE IF ~as_callback_ok THEN CallbackError("as_callback", 0)
    ELSE IF total # 0 /\ ~set_size_ok THEN CallbackError("set_size", 0)
    ELSE None

\* upload(from_info, to_info, total, callback) up to the call of the
\* primitive; size is the number of bytes a stream source holds
Upload(caps, scheme, from_info, to_info, callback, total, as_callback_ok, set_size_ok, size) ==
    LET r == UploadRoute(caps, scheme, from_info, to_info)
        acquired == callback_acquired(callback, total, as_callback_ok, set_size_ok)
        args == [call EXCEPT !.op = "upload", !.caps = caps, !.scheme = scheme,
                             !.from_info = from_info, !.to_info = to_info,
                             !.route = r.kind]
    IN
    /\ IF UploadRejectedEarly(caps, scheme, from_info, to_info)
       THEN \* lines 243-247
            /\ call' = [args EXCEPT !.pc = "raised", !.exc = r.exc]
            /\ UNCHANGED prim
       ELSE IF acquired # None
       THEN \* lines 262-264 raise: the with block of line 266 is not reached
            /\ call' = [args EXCEPT !.pc = "raised", !.exc = acquired,
                                    !.pbar = default_pbar(callback)]
            /\ UNCHANGED prim
       ELSE IF r.kind = "raise"
       THEN \* lines 276-277, inside the with block
            /\ call' = [args EXCEPT !.pc = "raised", !.exc = r.exc,
                                    !.pbar = exit_stack(default_pbar(callback))]
            /\ UNCHANGED prim
       ELSE \* lines 268-274 and 279-283: the primitive is called
            /\ call' = [args EXCEPT !.pc = r.kind, !.pbar = default_pbar(callback),
                                    !.left = IF is_file_obj(from_info) THEN size ELSE 0]
            /\ prim' = [prim EXCEPT ![r.kind] = @ + 1]
    /\ UNCHANGED <<fs, dirs, envvars, task, execvars>>

\* a caller invokes upload on some backend, with a stream or a located source
upload ==
    /\ call.pc = "idle"
    /\ ctor.pc = "constructed"
    /\ \E caps \in SUBSET Capabilities, scheme \in BackendSchemes,
          from_info \in {Stream} \cup {Located(s) : s \in Schemes},
          to_scheme \in Schemes, callback \in BOOLEAN, total \in {0, MaxBytes},
          as_callback_ok \in BOOLEAN, set_size_ok \in BOOLEAN, size \in 0..MaxBytes :
            Upload(caps, scheme, from_info, Located(to_scheme), callback, total,
                   as_callback_ok, set_size_ok, size)

\* (mutant) the wrapper is handed callback.absolute_update: the callback is
\* told len(data) as the new value
absolute_update(reported, data) == data

\* callback.relative_update(len(data)): the callback is told len(data) more
relative_update(reported, data) == reported + data

\* lines 268-270: wrapped = CallbackIOWrapper(callback.relative_update,
\* from_info).  wrapped.read reads from from_info and reports len(data)
wrapped_read(c, data) ==
    [c EXCEPT !.left = @ - data, !.nread = @ + data,
              !.reported = relative_update(@, data)]

\* upload_fobj reads some bytes from the stream it was given
upload_fobj_read ==
    /\ call.pc = "upload_fobj"
    /\ \E data \in 1..Min(call.left, MaxRead) : call' = wrapped_read(call, data)
    /\ UNCHANGED <<taskvars, execvars>>

\* the primitive returns (upload_fobj: at any point of the stream) and the
\* with block of line 266 is left
primitive_return ==
    /\ call.pc \in {"upload_fobj", "put_file"}
    /\ call' = [call EXCEPT !.pc = "returned", !.pbar = exit_stack(@)]
    /\ UNCHANGED <<taskvars, execvars>>

\* the primitive raises and the with block of line 266 is left
primitive_raise ==
    /\ call.pc \in {"upload_fobj", "put_file"}
    /\ call' = [call EXCEPT !.pc = "raised", !.exc = UploadError, !.pbar = exit_stack(@)]
    /\ UNCHANGED <<taskvars, execvars>>

\* --------------------------------------------------- default operations
\* the operations BaseFileSystem defines itself (lines 132-215), move aside
DefaultOperations ==
    {"checksum", "open", "exists", "isdir", "isfile", "isexec", "iscopy", "walk",
     "walk_files", "ls", "find", "is_empty", "info", "getsize", "remove", "makedirs",
     "copy", "symlink", "hardlink", "reflink"}

Returns(value) == [pc |-> "returned", exc |-> None, result |-> value]
Raises(exc) == [pc |-> "raised", exc |-> exc, result |-> ""]

\* (mutant) remove raises the bare NotImplementedError
Default_remove_bare(action, scheme) ==
    IF action = "remove" THEN Raises(NotImplementedError)
    ELSE IF action \in {"checksum", "exists", "walk", "walk_files", "info", "getsize"}
    THEN Raises(NotImplementedError)
    ELSE IF action \in {"isdir", "isexec", "iscopy", "is_empty"} THEN Returns("False")
    ELSE IF action = "isfile" THEN Returns("True")
    ELSE IF action = "makedirs" THEN Returns("None")
    ELSE Raises(RemoteActionNotImplemented(action, scheme))

\* lines 132-215: what an operation does on a backend that does not override it
Default(action, scheme) ==
    CASE action = "checksum" -> Raises(NotImplementedError)
      [] action = "open" -> Raises(RemoteActionNotImplemented("open", scheme))
      [] action = "exists" -> Raises(NotImplementedError)
      [] action = "isdir" -> Returns("False")
      [] action = "isfile" -> Returns("True")
      [] action = "isexec" -> Returns("False")
      [] action = "iscopy" -> Returns("False")
      [] action = "walk" -> Raises(NotImplementedError)
      [] action = "walk_files" -> Raises(NotImplementedError)
      [] action = "ls" -> Raises(RemoteActionNotImplemented("ls", scheme))
      [] action = "find" -> Raises(RemoteActionNotImplemented("find", scheme))
      [] action = "is_empty" -> Returns("False")
      [] action = "info" -> Raises(NotImplementedError)
      \* line 191: self.info(path_info).get("size")
      [] action = "getsize" -> Raises(NotImplementedError)
      [] action = "remove" -> Raises(RemoteActionNotImplemented("remove", scheme))
      \* lines 196-199: a docstring and no statement
      [] action = "makedirs" -> Returns("None")
      [] action = "copy" -> Raises(RemoteActionNotImplemented("copy", scheme))
      [] action = "symlink" -> Raises(RemoteActionNotImplemented("symlink", scheme))
      [] action = "hardlink" -> Raises(RemoteActionNotImplemented("hardlink", scheme))
      [] action = "reflink" -> Raises(RemoteActionNotImplemented("reflink", scheme))

\* a caller invokes an operation on a backend that overrides none of them
default_operation ==
    /\ call.pc = "idle"
    /\ ctor.pc = "constructed"
    /\ \E scheme \in BackendSchemes, action \in DefaultOperations :
        LET r == Default(action, scheme) IN
        call' = [call EXCEPT !.op = action, !.scheme = scheme, !.route = "default",
                             !.pc = r.pc, !.exc = r.exc, !.result = r.result]
    /\ UNCHANGED <<taskvars, execvars>>

\* ------------------------------------------------------- default move
\* the remote object move is asked to move, and where to
move_from == from_root
move_to == <<"c">>

RemoveError == Exc("RemoveError", "")
KeyboardInterrupt == Exc("KeyboardInterrupt", "")

\* a caller invokes move(from_info, to_info) on a backend that does not
\* override move; overrides are the operations among copy and remove that
\* the backend does override
move_default ==
    /\ call.pc = "idle"
    /\ ctor.pc = "constructed"
    /\ \E scheme \in BackendSchemes, overrides \in SUBSET {"copy", "remove"} :
        call' = [call EXCEPT !.op = "move", !.route = "move", !.scheme = scheme,
                             !.caps = overrides, !.pc = "copy"]
    /\ UNCHANGED <<taskvars, execvars>>

\* (mutant) remove is called whether copy returned or raised
after_copy_always(outcome) == "remove"

\* lines 202-203: remove follows copy only if copy returned
after_copy(outcome) == IF outcome.exc = None THEN "remove" ELSE "raised"

\* line 202: self.copy(from_info, to_info): the default of line 206, or the
\* backend's own, which copies the object or fails
move_copy ==
    /\ call.pc = "copy"
    /\ \E ok \in BOOLEAN :
        LET outcome == IF "copy" \notin call.caps THEN Default("copy", call.scheme)
                       ELSE IF ok /\ move_from \in remote THEN Returns("None")
                       ELSE Raises(CopyError)
        IN
        /\ call' = [call EXCEPT !.pc = after_copy(outcome), !.exc = outcome.exc,
                                !.result = IF outcome.exc = None THEN "copied" ELSE ""]
        /\ remote' = IF outcome.exc = None THEN remote \cup {move_to} ELSE remote
    /\ prim' = [prim EXCEPT !["copy"] = @ + 1]
    /\ UNCHANGED <<fs, dirs, before, self, ctor, task, execvars>>

\* line 203: self.remove(from_info): the default of line 194, or the
\* backend's own, which removes the object or fails
move_remove ==
    /\ call.pc = "remove"
    /\ \E ok \in BOOLEAN :
        LET outcome == IF "remove" \notin call.caps THEN Default("remove", call.scheme)
                       ELSE IF ok THEN Returns("None")
                       ELSE Raises(RemoveError)
        IN
        /\ call' = [call EXCEPT !.pc = outcome.pc,
                                !.exc = IF outcome.exc # None THEN outcome.exc ELSE @]
        /\ remote' = IF outcome.exc = None THEN remote \ {move_from} ELSE remote
    /\ prim' = [prim EXCEPT !["remove"] = @ + 1]
    /\ UNCHANGED <<fs, dirs, before, self, ctor, task, execvars>>

\* the call is interrupted between line 202 and line 203
move_interrupt ==
    /\ call.pc = "remove"
    /\ call' = [call EXCEPT !.pc = "raised", !.exc = KeyboardInterrupt]
    /\ UNCHANGED <<taskvars, execvars>>

\* -------------------------------------------------------- _download_dir
Running == {i \in Tasks : fut[i].state = "RUNNING"}

\* the loop of line 366 has been given a future with an exception (line 371)
failure_seen == call.exc # None

\* a worker thread is free to take the next work item
IdleWorker == Cardinality(Running) < call.max_workers

\* a worker takes the head of the queue and runs it: _download_file starts
work_item_run ==
    /\ IdleWorker
    /\ queue # <<>>
    /\ fut[Head(queue)].state = "PENDING"
    /\ LET i == Head(queue) IN
        /\ fut' = [fut EXCEPT ![i].state = "RUNNING"]
        /\ dirs' = makedirs(dirs, parent(task[i].to_info))
        /\ \E as_callback_ok \in BOOLEAN :
            task' = [task EXCEPT ![i] = entered(i, task[i].src, task[i].to_info, FALSE, as_callback_ok)]
        /\ prim' = [prim EXCEPT !["get_file"] = @ + task'[i].get_file_calls]
    /\ queue' = Tail(queue)
    /\ late' = IF failure_seen THEN late \cup {Head(queue)} ELSE late
    /\ UNCHANGED <<fs, envvars, call, done, snap, seen, ci>>

\* a worker takes a cancelled work item and drops it
work_item_skip ==
    /\ IdleWorker
    /\ queue # <<>>
    /\ fut[Head(queue)].state = "CANCELLED"
    /\ queue' = Tail(queue)
    /\ UNCHANGED <<taskvars, call, fut, done, snap, seen, ci, late>>

\* the call a worker runs has ended: the future gets its result or exception
work_item_done(i) ==
    /\ fut[i].state = "RUNNING"
    /\ task[i].pc \in {"returned", "raised"}
    /\ fut' = [fut EXCEPT ![i] = [state |-> "FINISHED", exc |-> task[i].exc]]
    /\ done' = Append(done, i)
    /\ UNCHANGED <<taskvars, call, queue, snap, seen, ci, late>>

\* line 366, first next(): as_completed notes the futures that are finished
as_completed_start ==
    /\ call.pc = "as_completed"
    /\ snap' = {i \in 1..call.n : fut[i].state = "FINISHED"}
    /\ call' = [call EXCEPT !.pc = "loop"]
    /\ UNCHANGED <<taskvars, fut, queue, done, seen, ci, late>>

\* the futures as_completed may yield next: any of those finished before it
\* started, then the others in the order they finish
as_completed_next ==
    IF snap \ seen # {}
    THEN snap \ seen
    ELSE LET later == SelectSeq(done, LAMBDA i : i \notin snap \cup seen)
         IN IF later = <<>> THEN {} ELSE {Head(later)}

\* (mutant) the loop ignores the exception of the future
observed_exc_swallowed(f) == None

\* (mutant) the loop reports the failure of the first failed future in
\* submission order instead of the one it was given
observed_exc_lowest(f) ==
    IF fut[f].exc = None THEN None
    ELSE fut[CHOOSE i \in Tasks : /\ fut[i].exc # None
                                  /\ \A j \in Tasks : fut[j].exc # None => i <= j].exc

\* line 370: future.exception()
observed_exc(f) == fut[f].exc

\* lines 366-371: one iteration of the loop over as_completed(futures)
as_completed_loop ==
    /\ call.pc = "loop"
    /\ IF Cardinality(seen) = call.n
       THEN /\ call' = [call EXCEPT !.pc = "shutdown"]
            /\ UNCHANGED <<seen, ci>>
       ELSE \E f \in as_completed_next :
            /\ seen' = seen \cup {f}
            /\ IF observed_exc(f) # None
               THEN /\ call' = [call EXCEPT !.pc = "cancel", !.exc = observed_exc(f)]
                    /\ ci' = 1
               ELSE UNCHANGED <<call, ci>>
    /\ UNCHANGED <<taskvars, fut, queue, done, snap, late>>

\* (mutant) cancel has no effect
cancelled_noop(f) == f

\* Future.cancel(): only a future that has not started is cancelled
cancelled(f) == IF f.state = "PENDING" THEN [f EXCEPT !.state = "CANCELLED"] ELSE f

\* lines 372-374: entry.cancel() for the next entry, then raise exc
cancel ==
    /\ call.pc = "cancel"
    /\ fut' = [fut EXCEPT ![ci] = cancelled(fut[ci])]
    /\ IF ci = call.n THEN /\ call' = [call EXCEPT !.pc = "shutdown"]
                           /\ ci' = 0
                      ELSE /\ ci' = ci + 1
                           /\ UNCHANGED call
    /\ UNCHANGED <<taskvars, queue, done, snap, seen, late>>

\* (mutant) the executor is left without waiting for its workers
shutdown_nowait == TRUE

\* leaving "with ThreadPoolExecutor": shutdown(wait=True) joins the workers
shutdown_wait == queue = <<>> /\ Running = {}

\* the executor is shut down; _download_dir returns, or raises exc
shutdown ==
    /\ call.pc = "shutdown"
    /\ shutdown_wait
    /\ call' = [call EXCEPT !.pc = IF call.exc # None THEN "raised" ELSE "returned"]
    /\ UNCHANGED <<taskvars, execvars>>

Init ==
    /\ \E pre \in {{}, DestFiles} : fs = [p \in pre |-> OldContent]
    /\ dirs = UNION {makedirs({}, parent(p)) : p \in DOMAIN fs}
    /\ self = NoInstance
    /\ ctor = NotConstructed
    /\ InitIdle

Next ==
    \/ __init__
    \/ download
    \/ upload
    \/ upload_fobj_read
    \/ primitive_return
    \/ primitive_raise
    \/ default_operation
    \/ move_default
    \/ move_copy
    \/ move_remove
    \/ move_interrupt
    \/ download_file_done
    \/ work_item_run
    \/ work_item_skip
    \/ \E i \in Tasks : work_item_done(i)
    \/ as_completed_start
    \/ as_completed_loop
    \/ cancel
    \/ shutdown
    \/ \E t \in Tasks : get_file_open(t)
    \/ \E t \in Tasks : get_file_write(t)
    \/ \E t \in Tasks : get_file_return(t)
    \/ \E t \in Tasks : get_file_raise(t)
    \/ \E t \in Tasks : _download_file_move(t)

Spec == Init /\ [][Next]_vars

\* ------------------------------------------- downloads under fair scheduling
\* an instance that __init__ has constructed without a jobs setting (the jobs
\* argument of download gives the smaller worker bounds), no local file yet
InitLive ==
    /\ fs = [p \in {} |-> OldContent]
    /\ dirs = {}
    /\ self = attributes(NoKwargs)
    /\ ctor = [NotConstructed EXCEPT !.pc = "constructed", !.checks = 1]
    /\ InitIdle

\* a get_file invocation takes its next step: it opens its target, writes a
\* chunk, returns or raises
get_file_step(t) ==
    \/ get_file_open(t)
    \/ get_file_write(t)
    \/ get_file_return(t)
    \/ get_file_raise(t)

NextLive ==
    \/ download
    \/ download_file_done
    \/ work_item_run
    \/ work_item_skip
    \/ \E i \in Tasks : work_item_done(i)
    \/ as_completed_start
    \/ as_completed_loop
    \/ cancel
    \/ shutdown
    \/ \E t \in Tasks : get_file_step(t)
    \/ \E t \in Tasks : _download_file_move(t)

\* every get_file invocation goes on until it returns or raises, the worker
\* threads of the pool and the thread of the caller are scheduled fairly
Fairness ==
    /\ \A t \in Tasks : WF_vars(get_file_step(t))
    /\ \A t \in Tasks : WF_vars(_download_file_move(t))
    /\ WF_vars(work_item_run)
    /\ WF_vars(work_item_skip)
    /\ \A i \in Tasks : WF_vars(work_item_done(i))
    /\ WF_vars(as_completed_start)
    /\ WF_vars(as_completed_loop)
    /\ WF_vars(cancel)
    /\ WF_vars(shutdown)

SpecLive == InitLive /\ [][NextLive]_vars /\ Fairness

\* ======================================================== single files
\* the content of a path, "absent" when there is no such file
Read(files, p) == IF p \in DOMAIN files THEN files[p] ELSE "absent"

\* d holds what it held before any call
AsBefore(d) ==
    /\ d \in DOMAIN fs <=> d \in DOMAIN before.fs
    /\ d \in DOMAIN fs => fs[d] = before.fs[d]

\* the calls that have moved their temporary file onto d
Moved(d) == {t \in Tasks : task[t].to_info = d /\ task[t].pc = "returned"}

\* C1: at every moment of any number of concurrent _download_file calls, a
\* destination holds what it held before the calls or the complete content of
\* the source of one call that has moved onto it, and every other file there
\* is, complete or not, is the temporary file of a call: get_file writes
\* nowhere else.
C1_DestinationNeverPartial ==
    /\ \A d \in CallDests :
        \/ AsBefore(d)
        \/ /\ d \in DOMAIN fs
           /\ \E t \in Moved(d) : fs[d] = RemoteContent(task[t].src)
    /\ \A p \in DOMAIN fs \ CallDests :
        \E t \in Tasks : /\ task[t].pc \in {"get_file", "move"}
                         /\ p = tmp_fname(task[t].to_info, uuid(t))
                         /\ p # task[t].to_info
                         /\ parent(p) = parent(task[t].to_info)

\* C1 witness: two calls on one destination that already had a content; one
\* has moved its complete content onto it while the other has written half
\* of its own into its temporary file.
C1_Witness ==
    \E t \in Tasks, u \in Tasks :
        /\ t # u
        /\ task[t].to_info = task[u].to_info
        /\ task[t].to_info \in DOMAIN before.fs
        /\ task[t].pc = "returned"
        /\ task[u].pc = "get_file" /\ task[u].wr = 1
        /\ fs[task[t].to_info] = RemoteContent(task[t].src)
        /\ Len(fs[task[u].tmp_file]) = 1

\* C2: once a _download_file call has raised, its temporary file is gone
\* and, unless another call has moved onto the same destination meanwhile,
\* the destination is exactly as before: absent if it was absent, else with
\* its prior content.
C2_FailureLeavesDestination ==
    \A t \in Tasks :
        task[t].pc = "raised" =>
            /\ task[t].tmp_file \notin DOMAIN fs
            /\ \A p \in DOMAIN fs : parent(p) = parent(task[t].to_info) =>
                    p # tmp_fname(task[t].to_info, uuid(t))
            /\ Moved(task[t].to_info) = {} => AsBefore(task[t].to_info)

\* C2 witness: a call whose get_file failed after its temporary file existed
\* has raised, beside a destination that had a content before.
C2_Witness ==
    \E t \in Tasks :
        /\ task[t].pc = "raised"
        /\ task[t].exc = TransferError(t)
        /\ task[t].to_info \in DOMAIN before.fs
        /\ Moved(task[t].to_info) = {}

\* C3 (as claimed): whatever get_file had done when it failed, the error a
\* _download_file call whose get_file failed delivers is the failure of
\* get_file.
C3_CallerGetsGetFileError ==
    \A t \in Tasks :
        (task[t].pc = "raised" /\ task[t].get_file_calls = 1) =>
            task[t].exc = TransferError(t)

\* ========================================================= directories
\* the files of the listing of the directory download
Listing == 1..call.n

\* the transfers of the directory download that ended with an error
Failed == {i \in Listing : fut[i].state = "FINISHED" /\ fut[i].exc # None}

\* the position of future i in the order of completion
DoneAt(i) == CHOOSE k \in 1..Len(done) : done[k] = i

\* the errors a _download_file call for file i can end with
FailuresOf(i) ==
    {TransferError(i), FileNotFoundError(tmp_fname(joinpath(to_root, FileRel(i)), uuid(i))),
     CallbackError("as_callback", i)}

DirEnded == call.route = "dir" /\ call.pc \in {"returned", "raised"}

\* C4: a directory download that has returned has transferred every file of
\* the listing and moved it onto destination / (path relative to the source);
\* one that has ended with any failed transfer has raised.
C4_DirReturnsOnlyComplete ==
    /\ (call.route = "dir" /\ call.pc = "returned") =>
        \A i \in Listing :
            /\ fut[i] = [state |-> "FINISHED", exc |-> None]
            /\ task[i].pc = "returned"
            /\ Read(fs, joinpath(to_root, FileRel(i))) = RemoteContent(i)
    /\ (DirEnded /\ Failed # {}) => call.pc = "raised"

\* C4 witness: a download of a directory of two files has returned, over
\* destinations that held something else before.
C4_Witness ==
    /\ call.route = "dir" /\ call.pc = "returned" /\ call.n = 2
    /\ before.fs # << >>
    /\ \A i \in Listing : fs[ToInfo(i)] = RemoteContent(i)

C6_NoLateTransferCompletes ==
    \A i \in late : task[i].pc # "returned"

\* C6 (amended): a cancelled future never starts: get_file is not invoked for
\* it and neither its destination nor a temporary file is written; once the
\* cancel loop is through, no future is left that could still start.  A
\* future that a worker starts after the failure was seen but before the
\* loop reaches it is not cancelled and runs like any transfer in flight:
\* when the download raises, each has run to its own return or failure.
C6_CancelledNeverStarts ==
    call.route = "dir" =>
        \A i \in Listing :
            /\ fut[i].state = "CANCELLED" =>
                /\ failure_seen
                /\ task[i].pc = "idle"
                /\ AsBefore(ToInfo(i))
                /\ tmp_fname(ToInfo(i), uuid(i)) \notin DOMAIN fs
            /\ (failure_seen /\ call.pc \in {"shutdown", "raised"}) =>
                fut[i].state \in {"RUNNING", "FINISHED", "CANCELLED"}
            /\ i \in late => fut[i].state \in {"RUNNING", "FINISHED"}
            /\ call.pc = "raised" =>
                /\ fut[i].state \in {"FINISHED", "CANCELLED"}
                /\ fut[i].state = "FINISHED" => task[i].pc \in {"returned", "raised"}

\* C6 witness: the download has raised the failure of the first file and the
\* second was cancelled before a worker took it.
C6_Witness ==
    /\ call.route = "dir" /\ call.pc = "raised"
    /\ \E i \in Listing : fut[i].state = "CANCELLED"
    /\ \E i \in Listing : fut[i].state = "FINISHED" /\ call.exc = fut[i].exc

\* ============================================================ dispatch
\* the backend primitives that were invoked
Invoked == {p \in Primitives : prim[p] > 0}

\* no local file or directory was created, changed or removed
LocalUntouched == fs = before.fs /\ dirs = before.dirs

\* no per-file transfer was scheduled or started
NothingScheduled ==
    /\ queue = <<>>
    /\ \A i \in Tasks : fut[i] = NoFuture /\ task[i] = IdleTask

Downloading == call.op = "download" /\ call.pc # "idle"

\* C7: a download that finds a directory (isdir) with an empty listing
\* (walk_files) has returned without an error, the destination directory
\* exists, get_file was not invoked and no transfer was scheduled or started.
C7_EmptyDirectory ==
    (Downloading /\ call.route = "dir" /\ call.n = 0) =>
        /\ call.pc = "returned" /\ call.exc = None
        /\ to_root \in dirs
        /\ prim["isdir"] = 1 /\ prim["walk_files"] = 1
        /\ prim["get_file"] = 0
        /\ NothingScheduled
        /\ fs = before.fs

\* C7 witness: the download of an empty directory has returned and has
\* created the destination directory, which did not exist.
C7_Witness ==
    /\ Downloading /\ call.route = "dir" /\ call.n = 0
    /\ call.pc = "returned"
    /\ to_root \notin before.dirs
    /\ to_root \in dirs

\* source and destination both have the backend's scheme, which is not local
SameRemoteScheme ==
    /\ call.scheme # "local"
    /\ call.from_info.scheme = call.scheme
    /\ call.to_info.scheme = call.scheme

\* C8 (as claimed): on every backend whose scheme is not local, a download
\* within the backend's scheme invokes copy once and nothing else, and has
\* ended without any local effect.
C8_SameSchemeCopies ==
    (Downloading /\ SameRemoteScheme) =>
        /\ prim["copy"] = 1
        /\ Invoked = {"copy"}
        /\ call.pc \in {"returned", "raised"}
        /\ LocalUntouched /\ NothingScheduled

\* C8 (amended): the same on every such backend that has get_file; copy's
\* own error, if it raises, is what the call raises.  On a backend without
\* get_file the call raises RemoteActionNotImplemented("get_file", scheme)
\* and copy is not invoked.
C8_SameSchemeCopiesIfGetFile ==
    (Downloading /\ SameRemoteScheme) =>
        /\ LocalUntouched /\ NothingScheduled
        /\ IF "get_file" \in call.caps
           THEN /\ prim["copy"] = 1
                /\ Invoked = {"copy"}
                /\ \/ call.pc = "returned" /\ call.exc = None
                   \/ call.pc = "raised" /\ call.exc = CopyError
           ELSE /\ Invoked = {}
                /\ call.pc = "raised"
                /\ call.exc = RemoteActionNotImplemented("get_file", call.scheme)

\* C8 witness: a download from s3 to s3 on an s3 backend with get_file has
\* returned after one copy.
C8_Witness ==
    /\ Downloading /\ SameRemoteScheme
    /\ "get_file" \in call.caps
    /\ call.pc = "returned"
    /\ prim["copy"] = 1

\* the source is not of the backend's scheme, or the destination is neither
\* of the backend's own non-local scheme nor local
Incompatible ==
    \/ call.from_info.scheme # call.scheme
    \/ /\ call.to_info.scheme # "local"
       /\ ~(call.to_info.scheme = call.scheme /\ call.scheme # "local")

\* C9 (as claimed): a download with incompatible schemes has raised the
\* unsupported-transfer error (NotImplementedError), no backend primitive
\* was invoked and nothing local has changed.
C9_IncompatibleRejected ==
    (Downloading /\ Incompatible) =>
        /\ call.pc = "raised"
        /\ call.exc = NotImplementedError
        /\ Invoked = {}
        /\ LocalUntouched /\ NothingScheduled

\* C9 (amended): a download with incompatible schemes has raised, no backend
\* primitive was invoked and nothing local has changed; the error is the
\* unsupported-transfer error on a backend that has get_file, and
\* RemoteActionNotImplemented("get_file", scheme) on one that has not.
C9_IncompatibleRejectedSignal ==
    (Downloading /\ Incompatible) =>
        /\ call.pc = "raised"
        /\ call.exc = IF "get_file" \in call.caps
                      THEN NotImplementedError
                      ELSE RemoteActionNotImplemented("get_file", call.scheme)
        /\ Invoked = {}
        /\ LocalUntouched /\ NothingScheduled

\* C9 witness: on a backend with get_file, a download whose source has
\* another scheme has raised the unsupported-transfer error.
C9_Witness ==
    /\ Downloading
    /\ "get_file" \in call.caps
    /\ call.from_info.scheme # call.scheme
    /\ call.to_info.scheme = "local"
    /\ call.pc = "raised" /\ call.exc = NotImplementedError

\* the source of the upload is a stream
FromStream == "read" \in DOMAIN call.from_info

\* the primitive an upload of this source selects
Selected == IF FromStream THEN "upload_fobj" ELSE "put_file"

\* the upload is one that upload accepts
UploadAccepted ==
    /\ Selected \in call.caps
    /\ call.to_info.scheme = call.scheme
    /\ FromStream \/ call.from_info.scheme = "local"

\* C10: an upload invokes a primitive only if the destination has the
\* backend's scheme and the source is a stream or a local resource, and then
\* only the selected one (upload_fobj for a stream, put_file for a located
\* source), once.  A backend without the selected primitive raises
\* RemoteActionNotImplemented naming the primitive and the scheme.  A
\* rejected upload has raised and invoked nothing.
C10_UploadDispatch ==
    call.op = "upload" =>
        /\ Invoked \subseteq {Selected}
        /\ Invoked # {} => UploadAccepted
        /\ (UploadAccepted /\ call.exc.type # "CallbackError") => prim[Selected] = 1
        /\ Selected \notin call.caps =>
            /\ call.pc = "raised"
            /\ call.exc = [type |-> "RemoteActionNotImplemented",
                           arg |-> Selected \o " is not supported for " \o call.scheme \o " remotes"]
        /\ ~UploadAccepted =>
            /\ call.pc = "raised"
            /\ call.exc.type \in {"RemoteActionNotImplemented", "NotImplementedError",
                                  "CallbackError"}
            /\ call.exc.type = "CallbackError" =>
                    Selected \in call.caps /\ call.to_info.scheme = call.scheme
            /\ Invoked = {}
        /\ LocalUntouched /\ NothingScheduled

\* C10 witness: a local file was uploaded with put_file, once, by a backend
\* that has no upload_fobj; the upload returned.
C10_Witness ==
    /\ call.op = "upload" /\ call.pc = "returned"
    /\ ~FromStream /\ call.from_info.scheme = "local"
    /\ "upload_fobj" \notin call.caps
    /\ prim["put_file"] = 1 /\ prim["upload_fobj"] = 0

\* ================================================== default operations
\* the operations the claim says signal "action not supported"
Unsupported ==
    {"walk", "walk_files", "ls", "find", "open", "remove", "makedirs", "copy",
     "symlink", "hardlink", "reflink"}

\* the "action not supported" error naming the operation and the scheme
NotSupported(action, scheme) ==
    [type |-> "RemoteActionNotImplemented",
     arg |-> action \o " is not supported for " \o scheme \o " remotes"]

DefaultCalled == call.route = "default" /\ call.pc # "idle"

\* C11 (as claimed): each of walk, walk_files, ls, find, open, remove,
\* makedirs, copy, symlink, hardlink and reflink, called on a backend that
\* does not override it, raises RemoteActionNotImplemented naming the action
\* and the scheme.
C11_DefaultsNotSupported ==
    (DefaultCalled /\ call.op \in Unsupported) =>
        /\ call.pc = "raised"
        /\ call.exc = NotSupported(call.op, call.scheme)

\* C11 (amended): ls, find, open, remove, copy, symlink, hardlink and reflink
\* raise RemoteActionNotImplemented naming the action and the scheme; walk and
\* walk_files raise the bare NotImplementedError, as checksum and info do;
\* makedirs returns None and does nothing.
C11_DefaultsAsCoded ==
    DefaultCalled =>
        /\ call.op \in Unsupported \ {"walk", "walk_files", "makedirs"} =>
            /\ call.pc = "raised"
            /\ call.exc = NotSupported(call.op, call.scheme)
        /\ call.op \in {"walk", "walk_files", "checksum", "info"} =>
            /\ call.pc = "raised"
            /\ call.exc = [type |-> "NotImplementedError", arg |-> ""]
        /\ call.op = "makedirs" =>
            /\ call.pc = "returned" /\ call.exc = None /\ call.result = "None"
        /\ LocalUntouched /\ NothingScheduled /\ Invoked = {}

\* C11 witness: remove on an s3 backend that does not override it has raised
\* "remove is not supported for s3 remotes".
C11_Witness ==
    /\ DefaultCalled /\ call.op = "remove" /\ call.scheme = "s3"
    /\ call.pc = "raised"
    /\ call.exc.type = "RemoteActionNotImplemented"
    /\ call.exc.arg = "remove is not supported for s3 remotes"

\* ========================================================= construction
\* the packages the error of a failed construction was built from
Named == {ctor.missing[k] : k \in 1..Len(ctor.missing)}

\* C12: a construction fails with RemoteMissingDepsError exactly when some
\* declared dependency does not import; the error is built from exactly the
\* packages that do not; _check_requires has run once per construction,
\* whatever was called on the instance afterwards; a failed construction has
\* set no attribute and a successful one has set jobs, hash_jobs and _config.
C12_MissingDependencies ==
    /\ ctor.pc = "none" => ctor.checks = 0 /\ self = NoInstance
    /\ ctor.pc # "none" =>
        /\ ctor.checks = 1
        /\ ctor.pc = "raised" <=> ctor.unresolved # {}
        /\ ctor.pc = "raised" =>
            /\ ctor.exc.type = "RemoteMissingDepsError"
            /\ Named = ctor.unresolved
            /\ Len(ctor.missing) = Cardinality(ctor.unresolved)
            /\ DOMAIN self = {}
            /\ call.pc = "idle"
        /\ ctor.pc = "constructed" =>
            /\ ctor.exc = None
            /\ ctor.missing = <<>>
            /\ DOMAIN self = {"jobs", "hash_jobs", "_config"}

\* C12 witness: of two declared dependencies one imports and one does not;
\* the construction has failed naming the one that does not.
C12_Witness ==
    /\ ctor.pc = "raised"
    /\ ctor.missing = <<"azure-identity">>
    /\ ctor.unresolved = {"azure-identity"}
    /\ self = NoInstance

\* ============================================================= progress
\* an upload, or a single-file download, has returned or raised
UploadEnded == call.op = "upload" /\ call.pc \in {"returned", "raised"}
FileDownloadEnded ==
    call.op = "download" /\ call.route = "file" /\ call.pc \in {"returned", "raised"}

\* C13 (as claimed): when an upload or a single-file download has ended, on
\* whatever path (the primitive returned, it raised, the source was rejected,
\* as_callback or set_size raised), the default progress bar it created is
\* not open any more.
C13_ProgressClosed ==
    /\ UploadEnded => call.pbar # "open"
    /\ FileDownloadEnded => task[1].pbar # "open"

\* C14: in a stream upload, at every moment, whatever reads upload_fobj has
\* made, the increments reported to the callback add up to the number of
\* bytes read from the underlying stream, and each read of k bytes has added
\* k to both; nothing is reported in an upload of a located source.
C14_ReadsReported ==
    call.op = "upload" =>
        /\ call.reported = call.nread
        /\ call.nread > 0 => FromStream /\ prim["upload_fobj"] = 1
        /\ ~FromStream => call.reported = 0

\* C14 witness: upload_fobj has read three bytes of a stream in more than one
\* read and the upload has returned.
C14_Witness ==
    /\ call.op = "upload" /\ FromStream
    /\ call.pc = "returned"
    /\ call.nread >= 3 /\ call.reported >= 3

\* ========================================================== concurrency
\* the per-file transfers in flight: started and not yet ended
InFlight == {i \in Tasks : task[i].pc \in {"get_file", "move"}}

\* the worker bound of the directory download: the jobs argument when it is
\* given and not 0, else the jobs of the instance
WorkerBound == IF call.jobs # 0 THEN call.jobs ELSE self.jobs

\* the jobs of the instance: the constructor's jobs when given, else 4 x CPUs
ConfiguredJobs ==
    IF "jobs" \in DOMAIN self._config /\ self._config.jobs # 0
    THEN self._config.jobs
    ELSE 4 * cpu_count

\* C15: during a directory download, never more transfers are in flight, and
\* never more work items are held by workers, than the worker bound.
C15_BoundedWorkers ==
    (call.route = "dir" /\ call.n > 0) =>
        /\ self.jobs = ConfiguredJobs
        /\ call.max_workers = WorkerBound
        /\ WorkerBound >= 1
        /\ Cardinality(InFlight) <= WorkerBound
        /\ Cardinality(Running) <= WorkerBound
        /\ InFlight \subseteq Running

\* C15 witness: the call gave no jobs and the instance was constructed with
\* jobs = 1; one transfer is in flight and the second file waits for it.
C15_Witness ==
    /\ call.route = "dir" /\ call.n = 2
    /\ call.jobs = 0 /\ self.jobs = 1
    /\ InFlight = {1}
    /\ fut[2].state = "PENDING"
    /\ queue = <<2>>

\* ============================================================= dispatch
\* the download passed the scheme checks and materializes locally
Materializing == Downloading /\ call.route \in {"dir", "file"}

\* the per-file transfers that have started
Started == {i \in Tasks : task[i].pc # "idle"}

\* C16: a download that is not file-only has probed isdir once and has taken
\* the directory path exactly if the answer was true; a file-only download
\* has probed nothing, listed nothing and has taken the single-file path; and
\* however far the per-file transfers of a directory download have got, isdir
\* was probed once, by download, and each transfer that started went to
\* _download_file, which called get_file or failed before it.
C16_ProbeOnce ==
    Materializing =>
        /\ ~call.only_file =>
            /\ prim["isdir"] = 1
            /\ call.isdir \in {"True", "False"}
            /\ call.route = "dir" <=> call.isdir = "True"
        /\ call.only_file =>
            /\ prim["isdir"] = 0 /\ prim["walk_files"] = 0
            /\ call.isdir = ""
            /\ call.route = "file"
        /\ call.route = "file" =>
            /\ prim["walk_files"] = 0
            /\ Started = {1}
            /\ \A i \in Tasks : fut[i] = NoFuture
        /\ call.route = "dir" =>
            /\ prim["walk_files"] = 1
            /\ Started \subseteq Listing
            /\ \A i \in Started : fut[i].state \in {"RUNNING", "FINISHED"}
        /\ prim["get_file"] = Cardinality({i \in Started : task[i].get_file_calls = 1})
        /\ prim["copy"] = 0

\* C16 witness: both files of a directory download were transferred and
\* isdir was probed once.
C16_Witness ==
    /\ Materializing /\ call.route = "dir" /\ call.n = 2
    /\ \A i \in Listing : task[i].pc = "returned"
    /\ prim["isdir"] = 1 /\ prim["get_file"] = 2

\* ================================================================= move
\* C17: in the default move, remove is invoked only after copy returned; if
\* copy raised (the default copy always does), remove was not invoked and the
\* remote store is as before; from the moment copy has returned until remove
\* returns, and for good if remove raises or the call is interrupted, both the
\* source and the destination exist; when move returns, only the destination.
C17_MoveCopyThenRemove ==
    call.op = "move" =>
        /\ prim["copy"] <= 1 /\ prim["remove"] <= 1
        /\ prim["remove"] = 1 => prim["copy"] = 1 /\ call.result = "copied"
        /\ call.result # "copied" =>
            /\ prim["remove"] = 0
            /\ remote = {move_from}
            /\ call.pc \in {"copy", "raised"}
        /\ (call.pc = "raised" /\ "copy" \notin call.caps) =>
            /\ call.exc = NotSupported("copy", call.scheme)
            /\ prim["remove"] = 0
        /\ (call.result = "copied" /\ call.pc # "returned") =>
            {move_from, move_to} \subseteq remote
        /\ call.pc = "returned" =>
            /\ prim["copy"] = 1 /\ prim["remove"] = 1
            /\ remote = {move_to}
        /\ LocalUntouched /\ NothingScheduled

\* C17 witness: copy returned and remove raised: move has raised and the
\* object exists at the source and at the destination.
C17_Witness ==
    /\ call.op = "move" /\ call.pc = "raised"
    /\ call.result = "copied"
    /\ prim["remove"] = 1
    /\ call.exc # KeyboardInterrupt
    /\ remote = {move_from, move_to}

\* ========================================================== propagation
\* the futures with an exception that the loop of _download_dir was handed
ObservedFailures == {f \in seen : fut[f].exc # None}

\* C18: in a download, get_file is invoked at most once for a file, and once
\* for each file of a directory download that has returned; a single-file
\* download whose _download_file raised raises that error and never returns;
\* a directory download that was handed a failed transfer raises it and never
\* returns.
C18_NoRetryNoSwallow ==
    Materializing =>
        /\ \A i \in Tasks : task[i].get_file_calls <= 1
        /\ prim["get_file"] = Cardinality({i \in Tasks : task[i].get_file_calls = 1})
        /\ (call.route = "dir" /\ call.pc = "returned") =>
            /\ \A i \in Listing : task[i].get_file_calls = 1
            /\ prim["get_file"] = call.n
        /\ (call.route = "file" /\ task[1].pc = "raised") =>
            /\ call.pc \in {"file", "raised"}
            /\ call.pc = "raised" => call.exc = task[1].exc /\ call.exc # None
        /\ (call.route = "file" /\ call.pc = "returned") =>
            task[1].pc = "returned" /\ prim["get_file"] = 1
        /\ (call.route = "dir" /\ ObservedFailures # {}) =>
            /\ call.pc \in {"cancel", "shutdown", "raised"}
            /\ \E f \in ObservedFailures : call.exc = fut[f].exc
        /\ (call.route = "dir" /\ call.pc = "raised") => ObservedFailures # {}

\* C18 witness: get_file failed halfway in a single-file download, which has
\* raised its error after one invocation.
C18_Witness ==
    /\ Materializing /\ call.route = "file"
    /\ call.pc = "raised"
    /\ call.exc = TransferError(1)
    /\ prim["get_file"] = 1

\* C19: once a directory download has returned or raised, none of its
\* transfers is in flight or held by a worker, none is left that could still
\* start (each future is finished, or was cancelled before it started, and
\* the work queue is empty): every step that writes a destination or a
\* temporary path of the call lies before its end.
C19_NothingRunsAfterEnd ==
    (DirEnded /\ call.n > 0) =>
        /\ Running = {} /\ InFlight = {}
        /\ queue = <<>>
        /\ \A i \in Listing :
            /\ fut[i].state \in {"FINISHED", "CANCELLED"}
            /\ fut[i].state = "FINISHED" => task[i].pc \in {"returned", "raised"}
            /\ fut[i].state = "CANCELLED" => task[i].pc = "idle" /\ call.pc = "raised"
        /\ call.pc = "raised" => call.exc # None

\* C19 witness: a directory download has raised; a transfer that a worker
\* started after the failure had been seen has run to its end before that.
C19_Witness ==
    /\ DirEnded /\ call.pc = "raised"
    /\ late # {}
    /\ \A i \in late : task[i].pc = "returned" /\ fut[i].state = "FINISHED"

\* a directory download is under way: its futures are submitted and it has
\* not returned or raised yet
DirUnderWay == call.route = "dir" /\ call.pc \notin {"idle", "returned", "raised"}

\* C20: when every get_file invocation ends and the workers and the caller's
\* thread are scheduled fairly, every directory download that is under way
\* eventually returns or raises, whatever the number of files, the worker
\* bound and the transfers that fail.
C20_DirDownloadEnds == DirUnderWay ~> DirEnded

\* C20 witness: a directory download with more files than workers has raised
\* after a transfer failed, with a transfer cancelled before it started.
C20_Witness ==
    /\ DirEnded /\ call.pc = "raised"
    /\ call.max_workers < call.n
    /\ \E i \in Listing : fut[i].state = "CANCELLED"
    /\ \E i \in Listing : fut[i].state = "FINISHED" /\ fut[i].exc = call.exc

====
